---- MODULE Spec2Model ----
(***************************************************************************)
(* Model of recap_bot.py: the paginated, rate-limited history fetcher, the *)
(* Typeform classifier, the local day/month windows, the weekly rollup,    *)
(* the bar chart, the post-or-schedule decision and main()'s dispatch.     *)
(*                                                                         *)
(* Time is in seconds.  A local datetime is [wall, fold]: wall is the      *)
(* naive local reading in seconds since 2025-01-01 00:00 local, fold is    *)
(* PEP 495's disambiguation bit.  An instant is seconds since              *)
(* 2025-01-01 00:00 UTC.  The zone is the default TZ_NAME, America/Denver. *)
(* Text is a sequence of one-character strings so that lower()/upper()     *)
(* and substring search are computed, not assumed.                         *)
(***************************************************************************)
EXTENDS Integers, Sequences, FiniteSets, TLC

VARIABLES
    pc,          \* position of the running call
    env,         \* process configuration: MODE, TYPEFORM_APP_ID, SCHEDULE_AT_LOCAL, channels
    history,     \* the source channel's events, in source order
    clock,       \* the instant returned by the latest datetime.now(TZ)
    nowLocal,    \* main(): now_local
    stage,       \* which summary of the run is being computed
    daysLeft,    \* day arguments still to be summarised in this stage
    chain,       \* source side: the page chain served for the current call
    cursor,      \* _list_messages: cursor
    yielded,     \* messages yielded so far by the current _list_messages call
    count,       \* summarize_*: count
    lastReq,     \* the latest conversations_history request: its cursor and outcome
    fetches,     \* every (oldest, latest) window passed to the source, in call order
    week,        \* day summaries collected so far (oldest -> newest)
    summary,     \* the latest day or month summary
    deliveries,  \* delivery calls made, in call order
    printed,     \* stdout records of DRYRUN
    failure,     \* the exception that ended the run, or None
    arg,         \* input of the pure function under check
    ret          \* its result

vars == <<pc, env, history, clock, nowLocal, stage, daysLeft, chain, cursor,
          yielded, count, lastReq, fetches, week, summary, deliveries, printed,
          failure, arg, ret>>

None == "None"
NoText == <<"<None>">>          \* a text field that is absent (Python None)

\* ---------------------------------------------------------------- bounds
PageSize == 2          \* events per page the model source serves (<= limit=200)
MaxPages == 3          \* longest arbitrary page chain
MaxPageLen == 1        \* longest page of an arbitrary chain
MaxRows == 4           \* longest arbitrary row sequence fed to the rollup and the chart
MaxCount == 4          \* largest day total of an arbitrary row sequence
MarginDays == 8        \* days checked before and after the year 2025

\* ---------------------------------------------------------------- text
UpperLetters == <<"A","B","C","D","E","F","G","H","I","J","K","L","M",
                  "N","O","P","Q","R","S","T","U","V","W","X","Y","Z">>
LowerLetters == <<"a","b","c","d","e","f","g","h","i","j","k","l","m",
                  "n","o","p","q","r","s","t","u","v","w","x","y","z">>

LowerChar(c) ==
    IF \E i \in 1..26 : UpperLetters[i] = c
    THEN LowerLetters[CHOOSE i \in 1..26 : UpperLetters[i] = c]
    ELSE c

UpperChar(c) ==
    IF \E i \in 1..26 : LowerLetters[i] = c
    THEN UpperLetters[CHOOSE i \in 1..26 : LowerLetters[i] = c]
    ELSE c

\* str.lower()
Lower(s) == [i \in 1..Len(s) |-> LowerChar(s[i])]

\* str.upper()
Upper(s) == [i \in 1..Len(s) |-> UpperChar(s[i])]

\* `sub in s`
Contains(s, sub) ==
    \E i \in 0..(Len(s) - Len(sub)) :
        \A j \in 1..Len(sub) : s[i + j] = sub[j]

\* (x or "")
OrEmpty(x) == IF x = NoText THEN <<>> ELSE x

TYPEFORM == <<"t","y","p","e","f","o","r","m">>

\* ---------------------------------------------------------------- local time
Minute == 60
Hour == 60 * Minute
Day == 24 * Hour                 \* timedelta(days=1)

StdOffset == (0 - 7) * Hour       \* America/Denver, MST
DstOffset == (0 - 6) * Hour       \* America/Denver, MDT

SpringDay == 67                  \* 2025-03-09, days since 2025-01-01
FallDay == 305                   \* 2025-11-02

GapStart == SpringDay * Day + 2 * Hour       \* local readings 02:00-03:00 do not exist
OverlapStart == FallDay * Day + 1 * Hour     \* local readings 01:00-02:00 occur twice
SpringUtc == GapStart - StdOffset            \* instant of the switch to MDT
FallUtc == OverlapStart + Hour - DstOffset   \* instant of the switch back to MST

DateTime(w, f) == [wall |-> w, fold |-> f]

\* ZoneInfo.utcoffset(dt): the offset in force at a local reading (PEP 495)
UtcOffset(dt) ==
    IF dt.wall < GapStart THEN StdOffset
    ELSE IF dt.wall < GapStart + Hour
         THEN (IF dt.fold = 0 THEN StdOffset ELSE DstOffset)
    ELSE IF dt.wall < OverlapStart THEN DstOffset
    ELSE IF dt.wall < OverlapStart + Hour
         THEN (IF dt.fold = 0 THEN DstOffset ELSE StdOffset)
    ELSE StdOffset

\* ZoneInfo.fromutc, as used by datetime.now(TZ)
FromUtc(u) ==
    LET off == IF SpringUtc <= u /\ u < FallUtc THEN DstOffset ELSE StdOffset
    IN  DateTime(u + off, IF FallUtc <= u /\ u < FallUtc + Hour THEN 1 ELSE 0)

_ts(dt) == dt.wall - UtcOffset(dt)

\* datetime(d.year, d.month, d.day, 0, 0, 0, tzinfo=TZ)
Midnight(dt) == DateTime((dt.wall \div Day) * Day, 0)

\* aware datetime + timedelta(days=n): arithmetic on the local reading, fold reset
PlusDays(dt, n) == DateTime(dt.wall + n * Day, 0)

\* aware datetime + timedelta(seconds=n)
PlusSeconds(dt, n) == DateTime(dt.wall + n, 0)

\* a > b for two aware datetimes that share tzinfo: local readings compared, fold ignored
DtGreater(a, b) == a.wall > b.wall

DayIndex(dt) == dt.wall \div Day

\* first day (since 2025-01-01) of each month of 2025
MonthStarts == <<0, 31, 59, 90, 120, 151, 181, 212, 243, 273, 304, 334>>

\* dt.month, for a date of December 2024 .. January 2026
MonthOf(dt) ==
    LET d == DayIndex(dt)
    IN  IF d < 0 THEN 12
        ELSE IF d >= 365 THEN 1
        ELSE CHOOSE m \in 1..12 :
                 /\ MonthStarts[m] <= d
                 /\ (m = 12 \/ d < MonthStarts[m + 1])

YearOf(dt) ==
    LET d == DayIndex(dt)
    IN  IF d < 0 THEN 2024 ELSE IF d >= 365 THEN 2026 ELSE 2025

\* dt.day
DayOfMonth(dt) ==
    LET d == DayIndex(dt)
    IN  IF d < 0 THEN 32 + d
        ELSE IF d >= 365 THEN d - 364
        ELSE d - MonthStarts[MonthOf(dt)] + 1

\* datetime(year, month, 1, 0, 0, 0, tzinfo=TZ) for 2025-01 .. 2026-01
FirstOfMonth(year, month) ==
    IF year = 2026 THEN DateTime((365 + MonthStarts[month]) * Day, 0)
    ELSE IF year = 2024 THEN DateTime((MonthStarts[month] - 365) * Day, 0)
    ELSE DateTime(MonthStarts[month] * Day, 0)

\* strftime("%A") as a weekday number, 0 = Monday; 2025-01-01 is a Wednesday
Weekday(dt) == (DayIndex(dt) + 2) % 7

FixedDayWindow(day) ==
    LET start == Midnight(day)
    IN  <<_ts(start), _ts(start) + Day, start, PlusDays(start, 1)>>

_day_window_local(day) ==
    LET start == Midnight(day)
        end == PlusDays(start, 1)
    IN  <<_ts(start), _ts(end), start, end>>

_month_window_local_for(dt_any) ==
    LET start == FirstOfMonth(YearOf(dt_any), MonthOf(dt_any))
        next_month == IF MonthOf(dt_any) = 12
                      THEN FirstOfMonth(YearOf(dt_any) + 1, 1)
                      ELSE FirstOfMonth(YearOf(dt_any), MonthOf(dt_any) + 1)
    IN  <<_ts(start), _ts(next_month), start>>

\* "Sun Sep 14" as <<weekday, month, day of month>>
_date_label(dt) == <<Weekday(dt), MonthOf(dt), DayOfMonth(dt)>>

\* "September" as the month number
_month_label(dt) == MonthOf(dt)

\* ---------------------------------------------------------------- classifier
Housekeeping == {"channel_join", "channel_leave", "channel_topic", "channel_purpose",
                 "channel_name", "message_deleted", "message_changed"}

NoProfile == [app_id |-> None, name |-> NoText, username |-> NoText]

NameBeforeSubtype(msg, appId) ==
    LET bp == msg.bot_profile
    IN  IF appId # None /\ appId # "" /\ bp.app_id = appId THEN TRUE
        ELSE IF msg.subtype \in Housekeeping THEN FALSE
        ELSE \E s \in {Lower(OrEmpty(bp.name)), Lower(OrEmpty(bp.username)),
                       Lower(OrEmpty(msg.username))} : Contains(s, TYPEFORM)

\* msg.bot_profile is NoProfile when the key is missing, None or {}
_is_typeform_message(msg, appId) ==
    IF msg.subtype \in Housekeeping THEN FALSE
    ELSE LET bp == msg.bot_profile
             name_candidates == <<Lower(OrEmpty(bp.name)),
                                  Lower(OrEmpty(bp.username)),
                                  Lower(OrEmpty(msg.username))>>
         IN  IF appId # None /\ appId # "" /\ bp.app_id = appId THEN TRUE
             ELSE IF \E i \in 1..3 : Contains(name_candidates[i], TYPEFORM) THEN TRUE
             ELSE IF msg.user # None /\ msg.user # "" THEN FALSE
             ELSE FALSE

\* ---------------------------------------------------------------- rendering
RECURSIVE SumTotals(_)
\* sum(v for _, v in rows)
SumTotals(rows) ==
    IF rows = <<>> THEN 0 ELSE rows[1][2] + SumTotals(Tail(rows))

RECURSIVE MaxTotal(_)
\* max(v for _, v in rows), rows non-empty
MaxTotal(rows) ==
    IF Len(rows) = 1 THEN rows[1][2]
    ELSE LET m == MaxTotal(Tail(rows))
         IN  IF rows[1][2] > m THEN rows[1][2] ELSE m

\* math.ceil(a / b) for a >= 0, b > 0
CeilDiv(a, b) == (a + b - 1) \div b

\* round(num / den, 2) in hundredths: Python rounds an exact tie to the even digit
RoundHundredths(num, den) ==
    LET q == (100 * num) \div den
        r == (100 * num) % den
    IN  IF 2 * r < den THEN q
        ELSE IF 2 * r > den THEN q + 1
        ELSE IF q % 2 = 0 THEN q ELSE q + 1

BarWidth == 20

FloorBars(v, maxv) == IF v = 0 THEN 0 ELSE (v * BarWidth) \div maxv

\* n = 0 if v == 0 else max(1, math.ceil((v / maxv) * 20))
BarLength(v, maxv) ==
    IF v = 0 THEN 0
    ELSE LET c == CeilDiv(v * BarWidth, maxv)
         IN  IF c < 1 THEN 1 ELSE c

\* the chart as its rows <<label, number of fill characters, count>>; <<>> is ""
_bar_chart(rows) ==
    IF rows = <<>> THEN <<>>
    ELSE LET m == MaxTotal(rows)
             maxv == IF m = 0 THEN 1 ELSE m
         IN  [i \in 1..Len(rows) |->
                 <<rows[i][1], BarLength(rows[i][2], maxv), rows[i][2]>>]

\* post_weekly_typeform, from the day summaries to the chart; avg is in hundredths
Rollup(days) ==
    LET rows == [i \in 1..Len(days) |-> <<days[i].date_label, days[i].total>>]
        total == SumTotals(rows)
    IN  IF Len(rows) = 0
        THEN [raised |-> "ZeroDivisionError", rows |-> rows, total |-> total,
              avg |-> 0, chart |-> <<>>]
        ELSE [raised |-> None, rows |-> rows, total |-> total,
              avg |-> RoundHundredths(total, Len(rows)),
              chart |-> _bar_chart(rows)]

\* ---------------------------------------------------------------- delivery
ScheduleMargin == 15

\* hhmm is <<h, m>>, the parsed "HH:MM"; now is the instant datetime.now(TZ) reads
_local_dt_today_at(hhmm, now) ==
    DateTime(Midnight(FromUtc(now)).wall + hhmm[1] * Hour + hhmm[2] * Minute, 0)

\* the one delivery call made; now1 and now2 are the two readings of datetime.now(TZ).
\* schedule_at_local is <<>> when unset or empty.
_post_or_schedule(channel_to_post, text, blocks, schedule_at_local, now1, now2) ==
    IF schedule_at_local # <<>>
       /\ DtGreater(_local_dt_today_at(schedule_at_local, now1),
                    PlusSeconds(FromUtc(now2), ScheduleMargin))
    THEN [api |-> "chat_scheduleMessage", channel |-> channel_to_post, text |-> text,
          blocks |-> blocks, post_at |-> _ts(_local_dt_today_at(schedule_at_local, now1))]
    ELSE [api |-> "chat_postMessage", channel |-> channel_to_post, text |-> text,
          blocks |-> blocks, post_at |-> 0]

\* ---------------------------------------------------------------- source
NoCursor == 0

RECURSIVE Pages(_)
\* the source cuts a window's events into batches of PageSize; an empty window is one empty page
Pages(events) ==
    IF Len(events) <= PageSize THEN <<events>>
    ELSE <<SubSeq(events, 1, PageSize)>> \o Pages(SubSeq(events, PageSize + 1, Len(events)))

\* list_events over [oldest, latest): the page chain the source serves for a window
SourceChain(h, oldest, latest) ==
    Pages(SelectSeq(h, LAMBDA e : oldest <= e.ts /\ e.ts < latest))

\* one successful conversations_history response; a cursor is the index of the page it opens
conversations_history(pages, cur) ==
    LET i == IF cur = NoCursor THEN 1 ELSE cur
    IN  [messages |-> pages[i],
         has_more |-> i < Len(pages),
         next_cursor |-> IF i < Len(pages) THEN i + 1 ELSE NoCursor]

RECURSIVE Flatten(_)
Flatten(pages) == IF pages = <<>> THEN <<>> ELSE Head(pages) \o Flatten(Tail(pages))

RECURSIVE ParseInt(_)
\* int(s) for a string of decimal digits, given as its digits
ParseInt(digits) ==
    IF digits = <<>> THEN 0
    ELSE 10 * ParseInt(SubSeq(digits, 1, Len(digits) - 1)) + digits[Len(digits)]

\* Retry-After headers a 429 may carry, as digits: absent (<<>>), "1", "30"
RetryAfterHeaders == {<<>>, <<1>>, <<3, 0>>}

\* non-rate-limit failures of a request, by HTTP status (0: no response at all)
OtherStatuses == {0, 401, 500}

\* ---------------------------------------------------------------- _list_messages
NoRequest == [cursor |-> NoCursor, outcome |-> "none", status |-> 0, sleep |-> 0]

\* number of messages of a page that the caller counts
Counted(msgs) ==
    Cardinality({i \in 1..Len(msgs) : _is_typeform_message(msgs[i], env.TYPEFORM_APP_ID)})

RateLimitedRaises ==
    /\ pc = "request"
    /\ lastReq' = [cursor |-> cursor, outcome |-> "429", status |-> 429, sleep |-> 0]
    /\ pc' = "failed"
    /\ failure' = [exc |-> "SlackApiError", from |-> "conversations_history"]
    /\ UNCHANGED <<env, history, clock, nowLocal, stage, daysLeft, chain, cursor, yielded,
                   count, fetches, week, summary, deliveries, printed, arg, ret>>

\* conversations_history raises SlackApiError with status 429: parse Retry-After
\* (default "1") and enter time.sleep(retry_after + 1)
RateLimited ==
    /\ pc = "request"
    /\ \E h \in RetryAfterHeaders :
           lastReq' = [cursor |-> cursor, outcome |-> "429", status |-> 429,
                       sleep |-> ParseInt(IF h = <<>> THEN <<1>> ELSE h) + 1]
    /\ pc' = "sleep"
    /\ UNCHANGED <<env, history, clock, nowLocal, stage, daysLeft, chain, cursor, yielded,
                   count, fetches, week, summary, deliveries, printed, failure, arg, ret>>

BackoffRestarts ==
    /\ pc = "sleep"
    /\ pc' = "request"
    /\ cursor' = NoCursor
    /\ UNCHANGED <<env, history, clock, nowLocal, stage, daysLeft, chain, yielded, count,
                   lastReq, fetches, week, summary, deliveries, printed, failure, arg, ret>>

\* time.sleep returns; `continue` re-enters the loop with cursor untouched
Backoff ==
    /\ pc = "sleep"
    /\ pc' = "request"
    /\ UNCHANGED <<env, history, clock, nowLocal, stage, daysLeft, chain, cursor, yielded,
                   count, lastReq, fetches, week, summary, deliveries, printed, failure,
                   arg, ret>>

SourceErrorRetried ==
    /\ pc = "request"
    /\ \E st \in OtherStatuses :
           lastReq' = [cursor |-> cursor, outcome |-> "error", status |-> st, sleep |-> 2]
    /\ pc' = "sleep"
    /\ UNCHANGED <<env, history, clock, nowLocal, stage, daysLeft, chain, cursor, yielded,
                   count, fetches, week, summary, deliveries, printed, failure, arg, ret>>

\* conversations_history raises SlackApiError with another status (or no response):
\* re-raised, and nothing up the call chain catches it
SourceError ==
    /\ pc = "request"
    /\ \E st \in OtherStatuses :
           lastReq' = [cursor |-> cursor, outcome |-> "error", status |-> st, sleep |-> 0]
    /\ pc' = "failed"
    /\ failure' = [exc |-> "SlackApiError", from |-> "conversations_history"]
    /\ UNCHANGED <<env, history, clock, nowLocal, stage, daysLeft, chain, cursor, yielded,
                   count, fetches, week, summary, deliveries, printed, arg, ret>>

\* a successful response: every message is yielded (and counted by the caller when it
\* classifies true), then the loop ends or moves to next_cursor
FetchPage ==
    /\ pc = "request"
    /\ LET resp == conversations_history(chain, cursor)
       IN  /\ yielded' = yielded \o resp.messages
           /\ count' = count + Counted(resp.messages)
           /\ lastReq' = [cursor |-> cursor, outcome |-> "ok", status |-> 200, sleep |-> 0]
           /\ IF ~resp.has_more
              THEN pc' = "fetched" /\ cursor' = cursor
              ELSE pc' = "request" /\ cursor' = resp.next_cursor
    /\ UNCHANGED <<env, history, clock, nowLocal, stage, daysLeft, chain, fetches, week,
                   summary, deliveries, printed, failure, arg, ret>>

\* ---------------------------------------------------------------- inputs
DAILY == <<"D","A","I","L","Y">>
WEEKLY == <<"W","E","E","K","L","Y">>
MONTHLY == <<"M","O","N","T","H","L","Y">>
DRYRUN == <<"D","R","Y","R","U","N">>

\* MODE as set in the environment (NoText: unset)
Modes == {NoText, <<"d","a","i","l","y">>, WEEKLY, <<"M","o","n","t","h","l","y">>,
          DRYRUN, <<"Y","E","A","R","L","Y">>}

TypeformName == <<"T","y","p","e","f","o","r","m">>
OtherName == <<"F","o","r","m","s">>

Names == {NoText, <<>>, TypeformName, OtherName,
          <<"m","y","-","T","Y","P","E","F","O","R","M">>}

NoFailure == [exc |-> None, from |-> None]

Msg(ts, subtype, app_id, name, handle, username, user) ==
    [ts |-> ts, subtype |-> subtype,
     bot_profile |-> [app_id |-> app_id, name |-> name, username |-> handle],
     username |-> username, user |-> user]

\* a Typeform post, a post of the target app under another name, a human post, a join
TypeformPost(ts) == Msg(ts, "bot_message", "A0FORM", TypeformName, NoText, NoText, None)
RenamedPost(ts) == Msg(ts, None, "A1", OtherName, NoText, NoText, None)
HumanPost(ts) == Msg(ts, None, None, NoText, NoText, NoText, "U1")
JoinEvent(ts) == Msg(ts, "channel_join", None, NoText, NoText, TypeformName, "U2")

\* ---------------------------------------------------------------- the run
WeekLength == 7

\* seconds that may pass between two readings of datetime.now(TZ)
ClockSteps == {0, 1}

\* os.environ.get("MODE", "DAILY").upper()
RunMode(e) == Upper(IF e.MODE = NoText THEN DAILY ELSE e.MODE)

\* datetime(now.year, now.month, now.day, tzinfo=TZ) - timedelta(days=1)
Yesterday(now) == PlusDays(Midnight(now), 0 - 1)

WeekEndingToday(end_day_inclusive) ==
    [k \in 1..WeekLength |-> PlusDays(end_day_inclusive, 1 - (WeekLength - k))]

\* summarize_typeform_week: the day arguments, for i = 6 .. 0
WeekDays(end_day_inclusive) ==
    [k \in 1..WeekLength |-> PlusDays(end_day_inclusive, 0 - (WeekLength - k))]

\* MONTHLY_POST_TO_CHANNEL_ID or WEEKLY_POST_TO_CHANNEL_ID or MONITOR_CHANNEL_ID
MonthlyChannel(e) ==
    IF e.MONTHLY_POST_TO_CHANNEL_ID # None THEN e.MONTHLY_POST_TO_CHANNEL_ID
    ELSE IF e.WEEKLY_POST_TO_CHANNEL_ID # None THEN e.WEEKLY_POST_TO_CHANNEL_ID
    ELSE e.CHANNEL_ID

WeeklyChannel(e) ==
    IF e.WEEKLY_POST_TO_CHANNEL_ID # None THEN e.WEEKLY_POST_TO_CHANNEL_ID
    ELSE e.CHANNEL_ID

DayStages == {"daily", "weekly", "dry_yesterday", "dry_week"}
MonthStages == {"monthly", "dry_month"}

\* main(): read MODE and the clock, dispatch
Main ==
    /\ pc = "start"
    /\ \E a \in ClockSteps, b \in ClockSteps :
         LET mode == RunMode(env)
             now1 == clock + a
             now2 == now1 + b
         IN  /\ nowLocal' = FromUtc(now1)
             /\ IF mode \in {DAILY, DRYRUN}
                THEN /\ clock' = now2
                     /\ daysLeft' = <<Yesterday(FromUtc(now2))>>
                     /\ stage' = IF mode = DAILY THEN "daily" ELSE "dry_yesterday"
                     /\ pc' = "call"
                     /\ failure' = failure
                ELSE /\ b = 0
                     /\ clock' = now1
                     /\ IF mode = WEEKLY
                        THEN /\ daysLeft' = WeekDays(Yesterday(FromUtc(now1)))
                             /\ stage' = "weekly"
                             /\ pc' = "call"
                             /\ failure' = failure
                        ELSE IF mode = MONTHLY
                        THEN /\ daysLeft' = <<>>
                             /\ stage' = "monthly"
                             /\ pc' = "call"
                             /\ failure' = failure
                        ELSE /\ daysLeft' = <<>>
                             /\ stage' = stage
                             /\ pc' = "exit"
                             /\ failure' = [exc |-> "SystemExit", from |-> "main"]
    /\ UNCHANGED <<env, history, chain, cursor, yielded, count, lastReq, fetches, week,
                   summary, deliveries, printed, arg, ret>>

\* summarize_typeform_for_day up to the first request of _list_messages
StartDay ==
    /\ pc = "call"
    /\ stage \in DayStages
    /\ LET w == _day_window_local(Head(daysLeft))
       IN  /\ fetches' = Append(fetches, <<w[1], w[2]>>)
           /\ chain' = SourceChain(history, w[1], w[2])
    /\ cursor' = NoCursor
    /\ count' = 0
    /\ yielded' = <<>>
    /\ lastReq' = NoRequest
    /\ pc' = "request"
    /\ UNCHANGED <<env, history, clock, nowLocal, stage, daysLeft, week, summary,
                   deliveries, printed, failure, arg, ret>>

\* summarize_typeform_month_to_now up to the first request of _list_messages
StartMonth ==
    /\ pc = "call"
    /\ stage \in MonthStages
    /\ LET w == _month_window_local_for(nowLocal)
           latest == _ts(nowLocal)
       IN  /\ fetches' = Append(fetches, <<w[1], latest>>)
           /\ chain' = SourceChain(history, w[1], latest)
    /\ cursor' = NoCursor
    /\ count' = 0
    /\ yielded' = <<>>
    /\ lastReq' = NoRequest
    /\ pc' = "request"
    /\ UNCHANGED <<env, history, clock, nowLocal, stage, daysLeft, week, summary,
                   deliveries, printed, failure, arg, ret>>

PostAfterFirstDay(st, rest) ==
    IF st \in {"daily", "weekly"} THEN "post" ELSE "call"

\* where control goes when a day summary returns: the next day of the week loop,
\* the post, or DRYRUN's next summary
AfterDay(st, rest) ==
    IF rest # <<>> THEN "call"
    ELSE IF st \in {"daily", "weekly"} THEN "post"
    ELSE "call"

\* summarize_typeform_for_day returns; the week loop or main() goes on
FinishDay ==
    /\ pc = "fetched"
    /\ stage \in DayStages
    /\ LET start_dt == _day_window_local(Head(daysLeft))[3]
           s == [date_label |-> _date_label(start_dt), dow |-> Weekday(start_dt),
                 total |-> count]
           rest == Tail(daysLeft)
           days == IF stage \in {"weekly", "dry_week"} THEN Append(week, s) ELSE week
       IN  /\ summary' = s
           /\ week' = days
           /\ pc' = AfterDay(stage, rest)
           /\ IF rest # <<>> \/ stage \in {"daily", "weekly"}
              THEN /\ daysLeft' = rest
                   /\ stage' = stage
                   /\ printed' = printed
              ELSE IF stage = "dry_yesterday"
              THEN /\ printed' = Append(printed, [yesterday_full |-> s])
                   /\ daysLeft' = WeekDays(Yesterday(nowLocal))
                   /\ stage' = "dry_week"
              ELSE /\ printed' = Append(printed,
                           [last_7_days |-> [i \in 1..Len(days) |->
                                <<days[i].date_label, days[i].total>>]])
                   /\ daysLeft' = <<>>
                   /\ stage' = "dry_month"
    /\ UNCHANGED <<env, history, clock, nowLocal, chain, cursor, yielded, count, lastReq,
                   fetches, deliveries, failure, arg, ret>>

\* summarize_typeform_month_to_now returns
FinishMonth ==
    /\ pc = "fetched"
    /\ stage \in MonthStages
    /\ LET m == [month |-> _month_label(_month_window_local_for(nowLocal)[3]),
                 total |-> count]
       IN  /\ summary' = m
           /\ IF stage = "monthly"
              THEN pc' = "post" /\ printed' = printed
              ELSE pc' = "done" /\ printed' = Append(printed, [month_to_now |-> m])
    /\ UNCHANGED <<env, history, clock, nowLocal, stage, daysLeft, chain, cursor, yielded,
                   count, lastReq, fetches, week, deliveries, failure, arg, ret>>

\* the delivery call of a post_* function; the delivery collaborator may reject it
Deliver(channel, text, blocks) ==
    \E a \in ClockSteps, b \in ClockSteps, ok \in BOOLEAN :
        /\ env.SCHEDULE_AT_LOCAL = <<>> => a = 0 /\ b = 0
        /\ clock' = clock + a + b
        /\ deliveries' = Append(deliveries,
               _post_or_schedule(channel, text, blocks, env.SCHEDULE_AT_LOCAL,
                                 clock + a, clock + a + b))
        /\ IF ok THEN pc' = "done" /\ failure' = failure
                 ELSE /\ pc' = "failed"
                      /\ failure' = [exc |-> "SlackApiError", from |-> "delivery"]

post_daily_typeform_yesterday ==
    /\ pc = "post"
    /\ stage = "daily"
    /\ Deliver(env.CHANNEL_ID, "Daily Typeform recap",
               [header |-> <<"Previous Day Recap", summary.dow>>,
                total |-> summary.total])
    /\ UNCHANGED <<env, history, nowLocal, stage, daysLeft, chain, cursor, yielded, count,
                   lastReq, fetches, week, summary, printed, arg, ret>>

post_weekly_typeform ==
    /\ pc = "post"
    /\ stage = "weekly"
    /\ LET r == Rollup(week)
       IN  IF r.raised # None
           THEN /\ pc' = "failed"
                /\ failure' = [exc |-> r.raised, from |-> "post_weekly_typeform"]
                /\ UNCHANGED <<clock, deliveries>>
           ELSE Deliver(WeeklyChannel(env), "Weekly Typeform recap",
                        [header |-> "Weekly Recap as of 2pm Friday", total |-> r.total,
                         avg |-> r.avg, chart |-> r.chart])
    /\ UNCHANGED <<env, history, nowLocal, stage, daysLeft, chain, cursor, yielded, count,
                   lastReq, fetches, week, summary, printed, arg, ret>>

post_monthly_typeform ==
    /\ pc = "post"
    /\ stage = "monthly"
    /\ Deliver(MonthlyChannel(env), "Monthly Typeform recap",
               [header |-> <<summary.month, "Monthly Recap">>, total |-> summary.total])
    /\ UNCHANGED <<env, history, nowLocal, stage, daysLeft, chain, cursor, yielded, count,
                   lastReq, fetches, week, summary, printed, arg, ret>>

\* an instant given by its local reading
LocalInstant(day, h, m, sec, fold) ==
    _ts(DateTime(day * Day + h * Hour + m * Minute + sec, fold))

\* 2025-06-11 13:59:44, 2025-03-10 09:00, 2025-11-02 01:30 (the second one),
\* 2025-11-03 09:00, 2025-12-31 23:59:59, 2025-01-01 00:00:05
StartClocks == {LocalInstant(161, 13, 59, 44, 0), LocalInstant(68, 9, 0, 0, 0),
                LocalInstant(305, 1, 30, 0, 1), LocalInstant(306, 9, 0, 0, 0),
                LocalInstant(364, 23, 59, 59, 0), LocalInstant(0, 0, 0, 5, 0)}

\* channel contents around the run's instant c: nothing; events on and next to the
\* day boundaries of the last week; a busy yesterday with events on the month's edges
Histories(c) ==
    LET today == Midnight(FromUtc(c))
        d(n) == _ts(PlusDays(today, 0 - n))
        m0 == _month_window_local_for(FromUtc(c))[1]
    IN  {<<>>,
         <<TypeformPost(d(0)), TypeformPost(d(0) - 1), RenamedPost(d(1) + 5),
           TypeformPost(d(1)), JoinEvent(d(2) + 1), TypeformPost(d(2)),
           HumanPost(d(7) + 60), TypeformPost(d(7)), TypeformPost(d(7) - 1)>>,
         <<TypeformPost(c + 1), TypeformPost(c), TypeformPost(c - 1),
           TypeformPost(d(0) - 2), TypeformPost(d(0) - 3), HumanPost(d(0) - 4),
           TypeformPost(d(0) - 5), RenamedPost(d(0) - 6), TypeformPost(d(1) + 1),
           TypeformPost(m0), TypeformPost(m0 - 1)>>}

Envs == [MODE : Modes,
         TYPEFORM_APP_ID : {None, "A1"},
         SCHEDULE_AT_LOCAL : {<<>>, <<14, 0>>, <<1, 45>>},
         CHANNEL_ID : {"C1"},
         WEEKLY_POST_TO_CHANNEL_ID : {None, "C2"},
         MONTHLY_POST_TO_CHANNEL_ID : {None}]

Init ==
    /\ pc = "start"
    /\ env \in Envs
    /\ clock \in StartClocks
    /\ history \in Histories(clock)
    /\ nowLocal = FromUtc(clock)
    /\ stage = "main"
    /\ daysLeft = <<>>
    /\ chain = <<<<>>>>
    /\ cursor = NoCursor
    /\ yielded = <<>>
    /\ count = 0
    /\ lastReq = NoRequest
    /\ fetches = <<>>
    /\ week = <<>>
    /\ summary = [total |-> 0]
    /\ deliveries = <<>>
    /\ printed = <<>>
    /\ failure = NoFailure
    /\ arg = None
    /\ ret = None

Next ==
    \/ Main
    \/ StartDay
    \/ StartMonth
    \/ RateLimited
    \/ Backoff
    \/ SourceError
    \/ FetchPage
    \/ FinishDay
    \/ FinishMonth
    \/ post_daily_typeform_yesterday
    \/ post_weekly_typeform
    \/ post_monthly_typeform

Spec == Init /\ [][Next]_vars

\* ---------------------------------------------------------------- _list_messages alone
SeqsUpTo(S, n) == UNION {[1..k -> S] : k \in 0..n}

FetchPool == {TypeformPost(1), HumanPost(2)}

\* every chain of 1..MaxPages pages of at most MaxPageLen messages
Chains == SeqsUpTo(SeqsUpTo(FetchPool, MaxPageLen), MaxPages) \ {<<>>}

FetchEnv == [MODE |-> NoText, TYPEFORM_APP_ID |-> None, SCHEDULE_AT_LOCAL |-> <<>>,
             CHANNEL_ID |-> "C1", WEEKLY_POST_TO_CHANNEL_ID |-> None,
             MONTHLY_POST_TO_CHANNEL_ID |-> None]

Idle ==
    /\ env = FetchEnv
    /\ history = <<>>
    /\ clock = 0
    /\ nowLocal = FromUtc(0)
    /\ daysLeft = <<>>
    /\ fetches = <<>>
    /\ week = <<>>
    /\ summary = [total |-> 0]
    /\ deliveries = <<>>
    /\ printed = <<>>
    /\ failure = NoFailure

FetchInit ==
    /\ Idle
    /\ pc = "request"
    /\ stage = "fetch"
    /\ chain \in Chains
    /\ cursor = NoCursor
    /\ yielded = <<>>
    /\ count = 0
    /\ lastReq = NoRequest
    /\ arg = None
    /\ ret = None

FetchNext == RateLimited \/ Backoff \/ SourceError \/ FetchPage

\* the interpreter always takes the next step of the running call; what the source
\* answers is up to the source
FetchSpec == FetchInit /\ [][FetchNext]_vars /\ WF_vars(FetchNext)

\* ---------------------------------------------------------------- pure functions
PureInit ==
    /\ Idle
    /\ pc = "call"
    /\ chain = <<<<>>>>
    /\ cursor = NoCursor
    /\ yielded = <<>>
    /\ count = 0
    /\ lastReq = NoRequest
    /\ ret = None

ClassifyInputs ==
    {Msg(0, st, aid, nm, h, un, u) :
        st \in {None, "channel_join", "message_changed", "bot_message"},
        aid \in {None, "A1", "A2"},
        nm \in Names,
        h \in {NoText, <<"t","y","p","e","f","o","r","m","_","b","o","t">>},
        un \in {NoText, <<"T","Y","P","E","F","O","R","M">>},
        u \in {None, "U1"}}

ClassifyInit ==
    /\ PureInit
    /\ stage = "classify"
    /\ arg \in [msg : ClassifyInputs, appId : {None, "", "A1"}]

Classify ==
    /\ pc = "call"
    /\ stage = "classify"
    /\ ret' = _is_typeform_message(arg.msg, arg.appId)
    /\ pc' = "returned"
    /\ UNCHANGED <<env, history, clock, nowLocal, stage, daysLeft, chain, cursor, yielded,
                   count, lastReq, fetches, week, summary, deliveries, printed, failure,
                   arg>>

ClassifySpec == ClassifyInit /\ [][Classify]_vars

WindowInit ==
    /\ PureInit
    /\ stage = "window"
    /\ arg \in {DateTime(d * Day + h * Hour, 0) :
                    d \in (0 - MarginDays)..(364 + MarginDays), h \in {0, 14}}

\* the windows of a day and of the day after it
DayWindows ==
    /\ pc = "call"
    /\ stage = "window"
    /\ ret' = [this |-> _day_window_local(arg),
               next |-> _day_window_local(PlusDays(arg, 1))]
    /\ pc' = "returned"
    /\ UNCHANGED <<env, history, clock, nowLocal, stage, daysLeft, chain, cursor, yielded,
                   count, lastReq, fetches, week, summary, deliveries, printed, failure,
                   arg>>

WindowSpec == WindowInit /\ [][DayWindows]_vars

\* day summaries with the given totals, labelled by position
DaysOf(totals) ==
    [i \in 1..Len(totals) |-> [date_label |-> i, dow |-> i % 7, total |-> totals[i]]]

RollupInputs ==
    SeqsUpTo(0..MaxCount, MaxRows) \cup {<<3, 0, 5, 2, 8, 1, 4>>, <<0, 10>>}

RollupInit ==
    /\ PureInit
    /\ stage = "rollup"
    /\ arg \in {DaysOf(t) : t \in RollupInputs}

\* post_weekly_typeform's rollup of a list of day summaries
WeeklyRollup ==
    /\ pc = "call"
    /\ stage = "rollup"
    /\ ret' = Rollup(arg)
    /\ pc' = "rolled"
    /\ UNCHANGED <<env, history, clock, nowLocal, stage, daysLeft, chain, cursor, yielded,
                   count, lastReq, fetches, week, summary, deliveries, printed, failure,
                   arg>>

\* _bar_chart of the rows of a list of day summaries
BarChart ==
    /\ pc = "call"
    /\ stage = "rollup"
    /\ ret' = _bar_chart([i \in 1..Len(arg) |-> <<arg[i].date_label, arg[i].total>>])
    /\ pc' = "charted"
    /\ UNCHANGED <<env, history, clock, nowLocal, stage, daysLeft, chain, cursor, yielded,
                   count, lastReq, fetches, week, summary, deliveries, printed, failure,
                   arg>>

RollupNext == WeeklyRollup \/ BarChart

RollupSpec == RollupInit /\ [][RollupNext]_vars

\* ---------------------------------------------------------------- claims
IsPrefix(a, b) == Len(a) <= Len(b) /\ a = SubSeq(b, 1, Len(a))

\* pages answered successfully so far by the running _list_messages call
PagesDone ==
    IF pc = "fetched" THEN Len(chain)
    ELSE IF cursor = NoCursor THEN 0 ELSE cursor - 1

\* C1: whatever 429s are interleaved, _list_messages has yielded exactly the messages
\* of the pages answered so far, in source order, each page once; when it stops it
\* has answered the last page (the first with has_more false) and yielded the whole
\* chain; and the request that follows a 429 carries the cursor of the failed one.
C1_PagesYieldedOnceInOrder ==
    /\ [](/\ yielded = Flatten(SubSeq(chain, 1, PagesDone))
          /\ IsPrefix(yielded, Flatten(chain))
          /\ pc = "fetched" =>
                 /\ yielded = Flatten(chain)
                 /\ lastReq.outcome = "ok"
                 /\ lastReq.cursor = (IF Len(chain) = 1 THEN NoCursor ELSE Len(chain))
          /\ pc = "sleep" => lastReq.outcome = "429" /\ cursor = lastReq.cursor)
    /\ [][lastReq.outcome = "429" => lastReq'.cursor = lastReq.cursor]_vars

\* a 429 on the second page, after the first page was yielded
C1_Witness ==
    /\ pc = "sleep"
    /\ lastReq.outcome = "429"
    /\ lastReq.cursor = 2
    /\ Len(chain) = 3
    /\ yielded # <<>>

\* C2 as stated: the retries are bounded, so every fetch over a finite chain finishes.
C2_FetchAlwaysFinishes == <>(pc \in {"fetched", "failed"})

\* C2 amended: a 429 never ends the call or reaches the caller; it is followed by a
\* pause and the same request, without any bound on the number of attempts, so the
\* fetch finishes unless the source answers 429 forever.
C2_RateLimitRecoveredLocally ==
    /\ [](lastReq.outcome = "429" =>
              /\ pc \in {"sleep", "request"}
              /\ failure = NoFailure
              /\ cursor = lastReq.cursor
              /\ lastReq.sleep >= 2)
    /\ ([]<>(pc = "sleep") \/ <>(pc \in {"fetched", "failed"}))

\* the retry of the second page is pending after a pause
C2_Witness ==
    /\ pc = "request"
    /\ lastReq.outcome = "429"
    /\ lastReq.cursor = 2
    /\ lastReq.sleep = 31

\* C3: a source request that fails with anything but a rate limit is not retried:
\* the run is over at once, ended by that SlackApiError, and no delivery call was or
\* will be made, whatever day of the week the failing fetch belongs to.
C3_SourceFailureAbortsRun ==
    (lastReq.outcome = "error" \/ failure.from = "conversations_history") =>
        /\ pc = "failed"
        /\ lastReq.outcome = "error"
        /\ failure = [exc |-> "SlackApiError", from |-> "conversations_history"]
        /\ deliveries = <<>>
        /\ ~ENABLED Next

\* a weekly run fails on its fourth day fetch, with counted events already summarised
C3_Witness ==
    /\ pc = "failed"
    /\ stage = "weekly"
    /\ lastReq.outcome = "error"
    /\ Len(fetches) = 4
    /\ Len(week) = 3
    /\ \E k \in 1..3 : week[k].total > 0

\* text fields of the classifier's inputs that contain "typeform" in some case
MatchingNames == {TypeformName, <<"m","y","-","T","Y","P","E","F","O","R","M">>,
                  <<"t","y","p","e","f","o","r","m","_","b","o","t">>,
                  <<"T","Y","P","E","F","O","R","M">>}

IdMatch == arg.appId \notin {None, ""} /\ arg.msg.bot_profile.app_id = arg.appId

NameMatch ==
    \/ arg.msg.bot_profile.name \in MatchingNames
    \/ arg.msg.bot_profile.username \in MatchingNames
    \/ arg.msg.username \in MatchingNames

C5_SchedulesOnlyFutureInstants ==
    /\ Len(deliveries) <= 1
    /\ (pc = "done" /\ stage \in {"daily", "weekly", "monthly"}) => Len(deliveries) = 1
    /\ \A i \in 1..Len(deliveries) :
           deliveries[i].api = "chat_scheduleMessage" =>
               /\ env.SCHEDULE_AT_LOCAL # <<>>
               /\ deliveries[i].post_at > clock + ScheduleMargin

\* C6: the window of a day starts at that day's local midnight, ends where the next
\* day's window starts (the next local midnight), has start < end, and lasts 24h,
\* except 23h on the day the clocks go forward and 25h on the day they go back.
C6_DayWindowsContiguous ==
    pc = "returned" =>
        LET d == DayIndex(arg)
        IN  /\ ret.this[2] = ret.next[1]
            /\ ret.this[1] < ret.this[2]
            /\ FromUtc(ret.this[1]) = DateTime(d * Day, 0)
            /\ FromUtc(ret.this[2]) = DateTime((d + 1) * Day, 0)
            /\ ret.this[2] - ret.this[1] =
                   (IF d = SpringDay THEN 23 * Hour
                    ELSE IF d = FallDay THEN 25 * Hour
                    ELSE 24 * Hour)

\* the 23-hour day, asked for with an afternoon datetime
C6_Witness ==
    /\ pc = "returned"
    /\ arg = DateTime(SpringDay * Day + 14 * Hour, 0)
    /\ ret.this[2] - ret.this[1] = 23 * Hour
    /\ ret.next[1] = ret.this[2]

RECURSIVE SumOf(_)
SumOf(days) == IF days = <<>> THEN 0 ELSE Head(days).total + SumOf(Tail(days))

C8_BarLengths ==
    (pc = "charted" /\ arg # <<>>) =>
        LET mx == CHOOSE m \in {arg[i].total : i \in 1..Len(arg)} :
                      \A i \in 1..Len(arg) : arg[i].total <= m
            dv == IF mx = 0 THEN 1 ELSE mx
        IN  /\ Len(ret) = Len(arg)
            /\ \A i \in 1..Len(arg) :
                   LET v == arg[i].total
                       n == ret[i][2]
                   IN  /\ ret[i][1] = arg[i].date_label
                       /\ ret[i][3] = v
                       /\ v = 0 => n = 0
                       /\ v > 0 => /\ 1 <= n /\ n <= 20
                                   /\ n * dv >= 20 * v
                                   /\ (n - 1) * dv < 20 * v
                       /\ (v > 0 /\ v = mx) => n = 20

\* rows [("A", 0), ("B", 10)]: no fill for A, twenty for B
C8_Witness ==
    /\ pc = "charted"
    /\ arg = DaysOf(<<0, 10>>)
    /\ ret[1][2] = 0
    /\ ret[2][2] = 20

\* how many requests-for-a-window a run of each mode makes when nothing fails
ExpectedFetches(mode) ==
    IF mode = WEEKLY THEN WeekLength
    ELSE IF mode = DRYRUN THEN WeekLength + 2
    ELSE IF mode \in {DAILY, MONTHLY} THEN 1
    ELSE 0

\* C9: a DAILY, WEEKLY or MONTHLY run that ends without failure has made exactly one
\* delivery call; a delivery call is made only when every fetch of the run has
\* answered its last page, and nothing runs after it; a DRYRUN run never delivers
\* and prints its three summaries; an unrecognized mode ends in SystemExit with no
\* source request and no delivery call.
C9_OneDeliveryAfterAllFetches ==
    LET mode == RunMode(env)
    IN  /\ (pc = "done" /\ mode \in {DAILY, WEEKLY, MONTHLY}) => Len(deliveries) = 1
        /\ deliveries # <<>> =>
               /\ Len(deliveries) = 1
               /\ mode \in {DAILY, WEEKLY, MONTHLY}
               /\ pc \in {"done", "failed"}
               /\ Len(fetches) = ExpectedFetches(mode)
               /\ yielded = Flatten(chain)
               /\ lastReq.outcome = "ok"
               /\ mode = WEEKLY => Len(week) = WeekLength
               /\ ~ENABLED Next
        /\ mode = DRYRUN =>
               /\ deliveries = <<>>
               /\ pc = "done" => Len(printed) = 3 /\ Len(fetches) = ExpectedFetches(mode)
        /\ mode \notin {DAILY, WEEKLY, MONTHLY, DRYRUN} =>
               /\ fetches = <<>>
               /\ deliveries = <<>>
               /\ lastReq = NoRequest
               /\ pc \in {"start", "exit"}
               /\ pc = "exit" => failure.exc = "SystemExit" /\ ~ENABLED Next

\* a weekly run that counted events on several pages has made its one delivery call
C9_Witness ==
    /\ pc = "done"
    /\ RunMode(env) = WEEKLY
    /\ Len(deliveries) = 1
    /\ Len(fetches) = 7
    /\ deliveries[1].blocks.total >= 3

\* target-bot events of the channel with a timestamp in [oldest, latest)
TargetEventsIn(oldest, latest) ==
    {i \in 1..Len(history) :
        /\ _is_typeform_message(history[i], env.TYPEFORM_APP_ID)
        /\ oldest <= history[i].ts
        /\ history[i].ts < latest}

\* C10: the week is fetched as 7 day windows, for the 7 consecutive local dates
\* ending at end_day_inclusive, oldest first, each from local midnight to the next
\* local midnight; every target-bot event from the start of the oldest day to the
\* end of the newest is counted in exactly one day, an event on a day boundary in
\* the later day only; and the 7 totals add up to the number of those events.
C10_WeekCountsEachEventOnce ==
    (Len(week) = WeekLength /\ pc \in {"post", "call"}) =>
        LET o == IF stage \in {"dry_week", "dry_month"} THEN 1 ELSE 0
            last == DayIndex(Yesterday(nowLocal))
            win(k) == fetches[o + k]
            span == TargetEventsIn(win(1)[1], win(WeekLength)[2])
        IN  /\ Len(fetches) >= o + WeekLength
            /\ stage = "weekly" => Len(fetches) = WeekLength
            /\ \A k \in 1..WeekLength :
                   /\ FromUtc(win(k)[1]) = DateTime((last - (WeekLength - k)) * Day, 0)
                   /\ FromUtc(win(k)[2]) = DateTime((last - (WeekLength - k) + 1) * Day, 0)
                   /\ week[k].total = Cardinality(TargetEventsIn(win(k)[1], win(k)[2]))
                   /\ week[k].date_label[3] = DayOfMonth(FromUtc(win(k)[1]))
            /\ \A k \in 1..(WeekLength - 1) : win(k)[2] = win(k + 1)[1]
            /\ \A i \in span :
                   Cardinality({k \in 1..WeekLength :
                       i \in TargetEventsIn(win(k)[1], win(k)[2])}) = 1
            /\ \A i \in span : \A k \in 1..WeekLength :
                   history[i].ts = win(k)[2] =>
                       i \notin TargetEventsIn(win(k)[1], win(k)[2])
            /\ SumOf(week) = Cardinality(span)

\* a week whose newest day lasts 23 hours, with a counted event exactly on the
\* boundary between its two newest days
C10_Witness ==
    /\ stage = "weekly"
    /\ pc = "post"
    /\ Len(week) = WeekLength
    /\ fetches[7][2] - fetches[7][1] = 23 * Hour
    /\ \E i \in 1..Len(history) :
           /\ history[i].ts = fetches[6][2]
           /\ _is_typeform_message(history[i], env.TYPEFORM_APP_ID)
    /\ week[7].total = 3

====
